---- MODULE Spec2Model ----
(***************************************************************************)
(* A model of the PyPI collector (package_managers/pypi/fetcher.py) and of *)
(* the PyPI normalizer (package_managers/pypi/transformer.py).             *)
(*                                                                         *)
(* SpecFetch     : one call of PyPIFetcher.fetch(), step by step, over an  *)
(*                 output root that an earlier run may have left behind.   *)
(* SpecTransform : one traversal of _read_batch_files or of one of the    *)
(*                 five projections, over batches that may be corrupt and  *)
(*                 records that may lack fields.                           *)
(* SpecUsers     : one traversal of users() over records that differ in    *)
(*                 their author and maintainer fields.                     *)
(***************************************************************************)
EXTENDS Integers, Sequences, FiniteSets, TLC

(***************************************************************************)
(* Bounds of the model.                                                    *)
(***************************************************************************)
\* Largest catalog the simple index returns.
MaxCatalog == 22
\* Most detail fetches of one run that do not return a non-empty document.
MaxFailures == 1
\* Most batch files an earlier run of the same calendar date left behind.
MaxPrevBatches == 2

(***************************************************************************)
(* Program constants.                                                      *)
(***************************************************************************)
\* fetcher.py:102  batch_size = 20
batch_size == 20
\* fetcher.py:82   packages = packages[:100]
TestLimit == 100
\* fetcher.py:104  batch_num = 1
FirstBatchNum == 1

VARIABLES
    \* ---- PyPIFetcher.fetch ----
    pc,             \* position of fetch(): start, listed, made, loop, done, failed, raised
    packages,       \* the identifiers returned by _get_package_list (after truncation)
    i,              \* the loop counter of enumerate(packages, 1); 0 before the loop
    current_batch,  \* the in-memory buffer
    batch_num,      \* the number of the next batch file
    files,          \* the Data handles returned
    dated_exists,   \* whether {output}/{today} exists
    dated_dir,      \* the files of {output}/{today}: batch number -> content
    latest,         \* the entry {output}/latest
    other_exists,   \* whether the dated directory of an earlier day still exists
    latest_before,  \* history: the entry {output}/latest when fetch() was called
    attempts,       \* history: identifiers passed to _get_package_data, in order
    fetched,        \* history: documents returned by successful detail fetches, in order
    failures,       \* history: detail fetches that gave no non-empty document
    \* ---- PyPITransformer ----
    data,           \* self.data: the Data objects given to the transformer
    method,         \* the generator being traversed: read, packages, users, ...
    bi,             \* _read_batch_files: index of the Data object being read
    ri,             \* _read_batch_files: records of that object already yielded
    tstatus,        \* the traversal: idle, running, done, raised
    texc,           \* the exception that left the generator, "none" if none did
    yielded,        \* history: the records _read_batch_files yielded, in order
    out,            \* the records the generator yielded to its caller, in order
    pbatch,         \* packages(): the local list `batch`
    seen_users      \* users(): the local set `seen_users`

fetchVars == <<pc, packages, i, current_batch, batch_num, files, dated_exists,
               dated_dir, latest, other_exists, latest_before, attempts, fetched,
               failures>>

transformVars == <<data, method, bi, ri, tstatus, texc, yielded, out, pbatch,
                   seen_users>>

vars == <<pc, packages, i, current_batch, batch_num, files, dated_exists,
          dated_dir, latest, other_exists, latest_before, attempts, fetched,
          failures, data, method, bi, ri, tstatus, texc, yielded, out, pbatch,
          seen_users>>

(***************************************************************************)
(* Values.                                                                 *)
(***************************************************************************)
Min(a, b) == IF a <= b THEN a ELSE b

\* Python's None, as the result of _get_package_data.
None == [tag |-> "None", id |-> 0, run |-> 0]
\* The JSON document the detail endpoint serves for identifier k to run r.
\* id 0 is the empty document {}: valid JSON, and falsy in Python.
Doc(k, r) == [tag |-> "doc", id |-> k, run |-> r]
EmptyDoc == [tag |-> "doc", id |-> 0, run |-> 1]

\* bool(package_data), the test of `if package_data:`
Truthy(d) == d.tag = "doc" /\ d.id # 0

\* json.dumps(current_batch).encode('utf-8'): the bytes of a JSON array.
JsonDumps(batch) == [enc |-> "json_array", items |-> batch]
\* No file of that name.
NoFile == [enc |-> "absent", items |-> <<>>]

\* Data(file_path="", file_name=batch_name, content=batch_content)
Data(n, content) == [file_path |-> "", file_name |-> n, content |-> content]

\* The batch numbers a run of the model can use.
BatchSlots == 1 .. ((MaxCatalog \div batch_size) + MaxPrevBatches + 2)

RECURSIVE Flatten(_)
\* The concatenation of a sequence of sequences.
Flatten(ss) == IF ss = <<>> THEN <<>> ELSE Head(ss) \o Flatten(Tail(ss))

(***************************************************************************)
(* The output root before the run.                                         *)
(***************************************************************************)
NoLatest == [kind |-> "none", target |-> "none"]
LatestForms ==
    { NoLatest,
      [kind |-> "symlink", target |-> "today"],
      [kind |-> "symlink", target |-> "other"],
      [kind |-> "dir", target |-> "none"] }

\* The batch files a complete earlier run of the same date wrote: n files, all
\* of batch_size documents but the last, which holds one.  Its documents carry
\* run 0.
PrevBatch(k, n) ==
    IF k > n THEN NoFile
    ELSE JsonDumps([j \in 1 .. (IF k < n THEN batch_size ELSE 1) |->
                        Doc((k - 1) * batch_size + j, 0)])
PrevDatedDir(n) == [k \in BatchSlots |-> PrevBatch(k, n)]

\* os.path.exists: follows a symlink, so a dangling one does not exist.
PathExists(l, today, other) ==
    \/ l.kind = "dir"
    \/ l.kind = "symlink" /\ l.target = "today" /\ today
    \/ l.kind = "symlink" /\ l.target = "other" /\ other
\* os.path.islink
IsLink(l) == l.kind = "symlink"
\* Whether {output}/latest resolves to {output}/{today}.
ResolvesToToday == latest.kind = "symlink" /\ latest.target = "today" /\ dated_exists

(***************************************************************************)
(* PyPIFetcher._get_package_list (lines 41-49) and the truncation of test  *)
(* mode (lines 81-83).                                                     *)
(***************************************************************************)
Truncate(p, test) == IF test THEN SubSeq(p, 1, Min(TestLimit, Len(p))) ELSE p

GetPackageList ==
    /\ pc = "start"
    /\ \/ \* response.raise_for_status() raises, or the request does
          /\ pc' = "failed"
          /\ UNCHANGED packages
       \/ \E n \in 0 .. MaxCatalog, test \in BOOLEAN :
            /\ packages' = Truncate([k \in 1 .. n |-> k], test)
            /\ pc' = "listed"
    /\ UNCHANGED <<i, current_batch, batch_num, files, dated_exists, dated_dir,
                   latest, other_exists, latest_before, attempts, fetched, failures>>
    /\ UNCHANGED transformVars

(***************************************************************************)
(* os.makedirs(dated_dir, exist_ok=True) (lines 86-90)                     *)
(***************************************************************************)
MakeDatedDir ==
    /\ pc = "listed"
    /\ dated_exists' = TRUE
    /\ pc' = "made"
    /\ UNCHANGED <<packages, i, current_batch, batch_num, files, dated_dir,
                   latest, other_exists, latest_before, attempts, fetched, failures>>
    /\ UNCHANGED transformVars

(***************************************************************************)
(* Removal of a stale `latest` (lines 92-100), then the loop's variables   *)
(* (lines 102-105).                                                        *)
(***************************************************************************)
\* The entry `latest` after lines 93-100.
RemoveStaleKeepLinks(l, today, other) ==
    IF PathExists(l, today, other) /\ ~IsLink(l) THEN NoLatest ELSE l
RemoveStale(l, today, other) ==
    IF PathExists(l, today, other)
    THEN IF IsLink(l) THEN NoLatest   \* os.remove(latest_symlink)
         ELSE NoLatest                \* shutil.rmtree(latest_symlink)
    ELSE l

RemoveLatest ==
    /\ pc = "made"
    /\ latest' = RemoveStale(latest, dated_exists, other_exists)
    /\ current_batch' = <<>>
    /\ batch_num' = FirstBatchNum
    /\ files' = <<>>
    /\ i' = 0
    /\ pc' = "loop"
    /\ UNCHANGED <<packages, dated_exists, dated_dir, other_exists,
                   latest_before, attempts, fetched, failures>>
    /\ UNCHANGED transformVars

(***************************************************************************)
(* PyPIFetcher._get_package_data (lines 51-68): what the call gives back   *)
(* for each outcome of the request.                                        *)
(***************************************************************************)
Outcomes == {"ok", "empty_document", "network_error", "http_error", "bad_json"}

Returned(v) == [raised |-> FALSE, value |-> v]
Raised == [raised |-> TRUE, value |-> None]

GetPackageDataLeaky(package_name, outcome) ==
    CASE outcome = "ok" -> Returned(Doc(package_name, 1))
      [] outcome = "empty_document" -> Returned(EmptyDoc)
      [] outcome = "network_error" -> Raised
      [] outcome = "http_error" -> Returned(None)
      [] outcome = "bad_json" -> Returned(None)
GetPackageData(package_name, outcome) ==
    CASE outcome = "ok" -> Returned(Doc(package_name, 1))      \* response.json()
      [] outcome = "empty_document" -> Returned(EmptyDoc)      \* response.json() == {}
      [] outcome = "network_error" -> Returned(None)           \* RequestException
      [] outcome = "http_error" -> Returned(None)              \* raise_for_status
      [] outcome = "bad_json" -> Returned(None)                \* JSONDecodeError

(***************************************************************************)
(* One pass of the loop body (lines 107-142).                              *)
(***************************************************************************)
\* line 114: len(current_batch) >= batch_size or i == len(packages)
ShouldSaveLate(len, idx, n) == len > batch_size \/ idx = n
ShouldSave(len, idx, n) == len >= batch_size \/ idx = n
\* line 115: if current_batch
HasData(batch) == batch # <<>>

Iterate ==
    /\ pc = "loop"
    /\ i < Len(packages)
    /\ \E outcome \in Outcomes :
         /\ (outcome # "ok") => failures < MaxFailures
         /\ LET idx == i + 1
                package_name == packages[idx]
                r == GetPackageData(package_name, outcome)
                appended == IF ~r.raised /\ Truthy(r.value)
                            THEN Append(current_batch, r.value)
                            ELSE current_batch
                save == /\ ShouldSave(Len(appended), idx, Len(packages))
                        /\ HasData(appended)
                batch_content == JsonDumps(appended)
            IN /\ attempts' = Append(attempts, package_name)
               /\ failures' = IF outcome = "ok" THEN failures ELSE failures + 1
               /\ IF r.raised
                  THEN /\ pc' = "raised"
                       /\ UNCHANGED <<i, current_batch, batch_num, files,
                                      dated_dir, fetched>>
                  ELSE /\ pc' = pc
                       /\ i' = idx
                       /\ fetched' = IF r.value = None THEN fetched
                                     ELSE Append(fetched, r.value)
                       /\ IF save
                          THEN /\ dated_dir' = [dated_dir EXCEPT ![batch_num] = batch_content]
                               /\ files' = Append(files, Data(batch_num, batch_content))
                               /\ current_batch' = <<>>
                               /\ batch_num' = batch_num + 1
                          ELSE /\ current_batch' = appended
                               /\ UNCHANGED <<dated_dir, files, batch_num>>
    /\ UNCHANGED <<packages, dated_exists, latest, other_exists, latest_before>>
    /\ UNCHANGED transformVars

(***************************************************************************)
(* return files (line 144)                                                 *)
(***************************************************************************)
Return ==
    /\ pc = "loop"
    /\ i = Len(packages)
    /\ pc' = "done"
    /\ UNCHANGED <<packages, i, current_batch, batch_num, files, dated_exists,
                   dated_dir, latest, other_exists, latest_before, attempts, fetched,
          failures>>
    /\ UNCHANGED transformVars

(***************************************************************************)
(* The state when fetch() is called.                                       *)
(***************************************************************************)
CallFetch ==
    /\ pc = "start"
    /\ packages = <<>>
    /\ i = 0
    /\ current_batch = <<>>
    /\ batch_num = FirstBatchNum
    /\ files = <<>>
    /\ \E n \in 0 .. MaxPrevBatches :
         /\ dated_exists = (n > 0)
         /\ dated_dir = PrevDatedDir(n)
    /\ latest \in LatestForms
    /\ other_exists \in BOOLEAN
    /\ (latest.target # "other") => other_exists
    \* after an earlier run of the same date `latest` is absent or points at it
    /\ dated_exists => latest \in {NoLatest, [kind |-> "symlink", target |-> "today"]}
    /\ latest_before = latest
    /\ attempts = <<>>
    /\ fetched = <<>>
    /\ failures = 0

\* No transformer has been built.
IdleTransform ==
    /\ data = <<>>
    /\ method = "none"
    /\ bi = 1
    /\ ri = 0
    /\ tstatus = "idle"
    /\ texc = "none"
    /\ yielded = <<>>
    /\ out = <<>>
    /\ pbatch = <<>>
    /\ seen_users = {}

InitFetch ==
    /\ CallFetch
    /\ IdleTransform

NextFetch ==
    \/ GetPackageList
    \/ MakeDatedDir
    \/ RemoveLatest
    \/ Iterate
    \/ Return

SpecFetch == InitFetch /\ [][NextFetch]_vars

(***************************************************************************)
(* PyPITransformer: JSON values.                                           *)
(*                                                                         *)
(* A JSON value is [t, s]: t is "absent" (the key is missing), "null",     *)
(* "str" (s holds its characters), "num" (a non-zero number), "dict" (a    *)
(* non-empty object), "list" (a non-empty array of strings) or "list_null" *)
(* (a non-empty array with a null entry).                                  *)
(***************************************************************************)
JV(t) == [t |-> t, s |-> <<>>]
Str(chars) == [t |-> "str", s |-> chars]

\* bool(v)
PyTruthy(v) ==
    CASE v.t = "str" -> v.s # <<>>
      [] v.t \in {"num", "dict", "list", "list_null"} -> TRUE
      [] OTHER -> FALSE

\* dict.get(key, default): the default only when the key is missing
GetOr(v, default) == IF v.t = "absent" THEN default ELSE v
\* dict.get(key) or default
GetOrElse(v, default) == IF PyTruthy(v) THEN v ELSE default

Space == " "
RECURSIVE LStrip(_)
LStrip(chars) ==
    IF chars # <<>> /\ Head(chars) = Space THEN LStrip(Tail(chars)) ELSE chars
RECURSIVE RStrip(_)
RStrip(chars) ==
    IF chars # <<>> /\ chars[Len(chars)] = Space
    THEN RStrip(SubSeq(chars, 1, Len(chars) - 1)) ELSE chars
\* str.strip()
Strip(chars) == RStrip(LStrip(chars))

\* A raw package record.  The keys not listed (home_page, version,
\* requires_python, the Source and Documentation urls, ...) hold non-empty
\* strings whenever `info` is an object.
RawRecord(info, name, urls, rels, reqs, author, a_email, maint, m_email) ==
    [info |-> info, name |-> name, project_urls |-> urls,
     releases |-> rels, requires_dist |-> reqs,
     author |-> author, author_email |-> a_email,
     maintainer |-> maint, maintainer_email |-> m_email]

\* json.loads(data.content)
JsonLoads(content) ==
    CASE content.enc = "json_array" -> [exc |-> "none", value |-> content.items]
      [] content.enc = "malformed" -> [exc |-> "JSONDecodeError", value |-> <<>>]
      [] content.enc = "not_utf8" -> [exc |-> "UnicodeDecodeError", value |-> <<>>]
\* Bytes that are text but not JSON, and bytes that are not UTF-8 text.
Malformed == [enc |-> "malformed", items |-> <<>>]
NotUtf8 == [enc |-> "not_utf8", items |-> <<>>]

(***************************************************************************)
(* PyPITransformer._read_batch_files (lines 21-38): one resumption of the  *)
(* generator from position (b, r).                                         *)
(***************************************************************************)
RECURSIVE ReadNext(_, _, _)
ReadNext(d, b, r) ==
    IF b > Len(d)
    THEN [kind |-> "exhausted", exc |-> "none", b |-> b, r |-> r]
    ELSE LET loaded == JsonLoads(d[b].content)
         IN IF loaded.exc = "JSONDecodeError"          \* except ...: continue
            THEN ReadNext(d, b + 1, 0)
            ELSE IF loaded.exc # "none"                \* not caught
            THEN [kind |-> "raised", exc |-> loaded.exc, b |-> b, r |-> r]
            ELSE IF r < Len(loaded.value)              \* yield package
            THEN [kind |-> "record", exc |-> "none", b |-> b, r |-> r + 1]
            ELSE ReadNext(d, b + 1, 0)

(***************************************************************************)
(* The body of each generator for one raw record: the exception it raises  *)
(* ("none" if none), the records it yields before that, the new seen set.  *)
(***************************************************************************)
Emitted(kind, n) == [kind |-> kind, of |-> n, username |-> <<>>, import_id |-> <<>>]
User(n, name, id) == [kind |-> "user", of |-> n, username |-> name, import_id |-> id]
Result(exc, emit, seen) == [exc |-> exc, emit |-> emit, seen |-> seen]

\* packages(), lines 46-109, before its except clauses
PackagesExtract(rec, n) ==
    IF rec.info.t = "absent" THEN Result("KeyError", <<>>, {})            \* package_data["info"]
    ELSE IF rec.info.t # "dict" THEN Result("AttributeError", <<>>, {})   \* info.get
    ELSE IF ~PyTruthy(GetOr(rec.name, Str(<<>>))) THEN Result("none", <<>>, {})
    ELSE IF GetOrElse(rec.project_urls, JV("dict")).t # "dict"
         THEN Result("AttributeError", <<>>, {})                          \* project_urls.get
    ELSE IF GetOrElse(rec.requires_dist, JV("list")).t \notin {"list", "list_null"}
         THEN Result("TypeError", <<>>, {})                               \* for req in ...
    ELSE Result("none", <<Emitted("package", n)>>, {})
\* lines 115-120: except KeyError / except Exception: continue
PackagesBody(rec, n) ==
    LET r == PackagesExtract(rec, n)
    IN IF r.exc # "none" THEN Result("none", <<>>, {}) ELSE r

\* users(), lines 138-147 and 150-159: one of the two name fields
UserOfNoDedup(name_field, email_field, seen, n) ==
    LET name0 == GetOrElse(name_field, Str(<<>>))
        email == GetOrElse(email_field, Str(<<>>))
    IN IF ~(PyTruthy(name0) /\ name0.t = "str") THEN Result("none", <<>>, seen)
       ELSE LET name == Strip(name0.s)
            IN IF name = <<>> THEN Result("none", <<>>, seen)
               ELSE IF ~PyTruthy(email)
                    THEN Result("none", <<User(n, name, name)>>, seen \cup {name})
               ELSE IF email.t = "str"
                    THEN Result("none", <<User(n, name, Strip(email.s))>>,
                                seen \cup {name})
               ELSE Result("AttributeError", <<>>, seen \cup {name})
UserOf(name_field, email_field, seen, n) ==
    LET name0 == GetOrElse(name_field, Str(<<>>))      \* info.get("author") or ""
        email == GetOrElse(email_field, Str(<<>>))     \* info.get("author_email") or ""
    IN IF ~(PyTruthy(name0) /\ name0.t = "str") THEN Result("none", <<>>, seen)
       ELSE LET name == Strip(name0.s)
            IN IF name = <<>> \/ name \in seen THEN Result("none", <<>>, seen)
               ELSE IF ~PyTruthy(email)
                    THEN Result("none", <<User(n, name, name)>>, seen \cup {name})
               ELSE IF email.t = "str"
                    THEN Result("none", <<User(n, name, Strip(email.s))>>,
                                seen \cup {name})
               ELSE Result("AttributeError", <<>>, seen \cup {name})  \* email.strip()

\* users(), lines 133-159
UsersBody(rec, n, seen) ==
    LET info == GetOr(rec.info, JV("null"))            \* {} is falsy, as null is
    IN IF ~PyTruthy(info) THEN Result("none", <<>>, seen)
       ELSE IF info.t # "dict" THEN Result("AttributeError", <<>>, seen)
       ELSE LET a == UserOf(rec.author, rec.author_email, seen, n)
            IN IF a.exc # "none" THEN a
               ELSE LET m == UserOf(rec.maintainer, rec.maintainer_email, a.seen, n)
                    IN Result(m.exc, a.emit \o m.emit, m.seen)

\* urls(), lines 164-192
UrlsBody(rec, n) ==
    IF rec.info.t = "absent" THEN Result("none", <<>>, {})     \* {}: nothing to emit
    ELSE IF rec.info.t # "dict" THEN Result("AttributeError", <<>>, {})
    ELSE LET project_urls == GetOr(rec.project_urls, JV("dict"))
         IN IF project_urls.t # "dict"                 \* project_urls.get("Source")
            THEN Result("AttributeError", <<Emitted("homepage", n)>>, {})
            ELSE IF rec.project_urls.t = "absent"
            THEN Result("none", <<Emitted("homepage", n)>>, {})
            ELSE Result("none", <<Emitted("homepage", n), Emitted("repository", n),
                                  Emitted("documentation", n)>>, {})

\* versions(), lines 197-214
VersionsBody(rec, n) ==
    IF rec.info.t = "absent" THEN Result("none", <<>>, {})     \* no name: continue
    ELSE IF rec.info.t # "dict" THEN Result("AttributeError", <<>>, {})
    ELSE IF ~PyTruthy(GetOr(rec.name, JV("null"))) THEN Result("none", <<>>, {})
    ELSE LET releases == GetOr(rec.releases, JV("dict"))
         IN IF releases.t # "dict" THEN Result("AttributeError", <<>>, {})  \* .items()
            ELSE IF rec.releases.t = "absent" THEN Result("none", <<>>, {})
            ELSE Result("none", <<Emitted("version", n)>>, {})

\* dependencies(), lines 219-249
DependenciesBody(rec, n) ==
    IF rec.info.t = "absent" THEN Result("none", <<>>, {})
    ELSE IF rec.info.t # "dict" THEN Result("AttributeError", <<>>, {})
    ELSE IF ~PyTruthy(GetOr(rec.name, JV("null"))) THEN Result("none", <<>>, {})
    ELSE LET requires_dist == GetOr(rec.requires_dist, JV("list"))
         IN IF requires_dist.t = "list_null"           \* req.split(";") on None
            THEN Result("AttributeError", <<Emitted("dependency", n)>>, {})
            ELSE IF requires_dist.t = "list" /\ rec.requires_dist.t # "absent"
            THEN Result("none", <<Emitted("dependency", n), Emitted("python", n)>>, {})
            ELSE Result("none", <<Emitted("python", n)>>, {})

Body(m, rec, n, seen) ==
    CASE m = "read" -> Result("none", <<>>, seen)
      [] m = "packages" -> PackagesBody(rec, n)
      [] m = "users" -> UsersBody(rec, n, seen)
      [] m = "urls" -> UrlsBody(rec, n)
      [] m = "versions" -> VersionsBody(rec, n)
      [] m = "dependencies" -> DependenciesBody(rec, n)

\* transformer.py:110  if len(batch) >= 10
PackagesChunk == 10

(***************************************************************************)
(* One resumption of the generator `method`: it pulls the next record from *)
(* _read_batch_files and runs its body on it.                              *)
(***************************************************************************)
PullRecord ==
    /\ tstatus = "running"
    /\ LET nx == ReadNext(data, bi, ri)
       IN /\ nx.kind = "record"
          /\ LET rec == JsonLoads(data[nx.b].content).value[nx.r]
                 n == Len(yielded) + 1
                 res == Body(method, rec, n, seen_users)
                 grown == pbatch \o res.emit
             IN /\ bi' = nx.b
                /\ ri' = nx.r
                /\ yielded' = Append(yielded, rec)
                /\ seen_users' = IF method = "users" THEN res.seen ELSE seen_users
                /\ IF method = "packages"
                   THEN IF Len(grown) >= PackagesChunk
                        THEN out' = out \o grown /\ pbatch' = <<>>
                        ELSE out' = out /\ pbatch' = grown
                   ELSE out' = out \o res.emit /\ pbatch' = pbatch
                /\ texc' = res.exc
                /\ tstatus' = IF res.exc = "none" THEN "running" ELSE "raised"
    /\ UNCHANGED <<data, method>>
    /\ UNCHANGED fetchVars

\* _read_batch_files is exhausted: the generator flushes and ends.
Exhaust ==
    /\ tstatus = "running"
    /\ LET nx == ReadNext(data, bi, ri)
       IN /\ nx.kind = "exhausted"
          /\ bi' = nx.b
          /\ ri' = nx.r
    /\ out' = out \o pbatch                            \* lines 123-126
    /\ pbatch' = <<>>
    /\ tstatus' = "done"
    /\ UNCHANGED <<data, method, texc, yielded, seen_users>>
    /\ UNCHANGED fetchVars

\* json.loads raises an exception that line 35 does not catch.
DecodeRaises ==
    /\ tstatus = "running"
    /\ LET nx == ReadNext(data, bi, ri)
       IN /\ nx.kind = "raised"
          /\ bi' = nx.b
          /\ ri' = nx.r
          /\ texc' = nx.exc
    /\ tstatus' = "raised"
    /\ UNCHANGED <<data, method, yielded, out, pbatch, seen_users>>
    /\ UNCHANGED fetchVars

NextTransform ==
    \/ PullRecord
    \/ Exhaust
    \/ DecodeRaises

(***************************************************************************)
(* The inputs of the transformer.                                          *)
(***************************************************************************)
\* Most Data objects given to the transformer, and most records of one.
MaxData == 2
MaxBatchLen == 2
\* Most records of the first batch that a run of users() reads.
MaxUserRecords == 2

SeqsUpTo(S, n) == UNION {[1 .. k -> S] : k \in 0 .. n}

Good ==
    RawRecord(JV("dict"), Str(<<"p">>), JV("dict"), JV("dict"), JV("list"),
              Str(<<"a">>), Str(<<"x">>), JV("null"), JV("null"))
\* Good, and the records that differ from it in one field.
ShapeRecords ==
    { Good,
      [Good EXCEPT !.info = JV("absent")],
      [Good EXCEPT !.info = JV("null")],
      [Good EXCEPT !.info = Str(<<"p">>)],
      [Good EXCEPT !.name = JV("absent")],
      [Good EXCEPT !.project_urls = JV("null")],
      [Good EXCEPT !.releases = JV("null")],
      [Good EXCEPT !.requires_dist = JV("list_null")],
      [Good EXCEPT !.author_email = JV("num")] }

\* Records that differ in their author and maintainer fields only.
AuthorFields ==
    { <<JV("null"), JV("null")>>,
      <<Str(<<" ">>), JV("null")>>,
      <<Str(<<"a">>), JV("null")>>,
      <<Str(<<"a">>), Str(<<"x">>)>>,
      <<Str(<<"a">>), Str(<<" ">>)>>,
      <<Str(<<"a", " ">>), Str(<<"x">>)>>,
      <<Str(<<"a", " ">>), Str(<<" ", "y">>)>> }
MaintainerFields ==
    { <<JV("null"), JV("null")>>,
      <<Str(<<"a">>), Str(<<"z">>)>>,
      <<Str(<<"b">>), JV("null")>> }
UserRecords ==
    { [Good EXCEPT !.author = a[1], !.author_email = a[2],
                   !.maintainer = m[1], !.maintainer_email = m[2]] :
        a \in AuthorFields, m \in MaintainerFields }

Methods == {"read", "packages", "users", "urls", "versions", "dependencies"}
Projections == Methods \ {"read"}

StartTraversal ==
    /\ bi = 1
    /\ ri = 0
    /\ tstatus = "running"
    /\ texc = "none"
    /\ yielded = <<>>
    /\ out = <<>>
    /\ pbatch = <<>>
    /\ seen_users = {}

\* No fetch is running.
IdleFetch ==
    /\ pc = "idle"
    /\ packages = <<>>
    /\ i = 0
    /\ current_batch = <<>>
    /\ batch_num = FirstBatchNum
    /\ files = <<>>
    /\ dated_exists = FALSE
    /\ dated_dir = PrevDatedDir(0)
    /\ latest = NoLatest
    /\ other_exists = TRUE
    /\ latest_before = NoLatest
    /\ attempts = <<>>
    /\ fetched = <<>>
    /\ failures = 0

InitTransform ==
    /\ IdleFetch
    /\ method \in Methods
    /\ \E contents \in SeqsUpTo({Malformed, NotUtf8} \cup
                                  {JsonDumps(b) : b \in SeqsUpTo(ShapeRecords, MaxBatchLen)},
                                MaxData) :
         data = [k \in 1 .. Len(contents) |-> Data(k, contents[k])]
    /\ StartTraversal

\* users() over one batch of records, alone or followed by a corrupt batch
InitUsers ==
    /\ IdleFetch
    /\ method = "users"
    /\ \E b \in SeqsUpTo(UserRecords, MaxUserRecords),
          rest \in {<<>>, <<Data(2, Malformed)>>, <<Data(2, NotUtf8)>>} :
         data = <<Data(1, JsonDumps(b))>> \o rest
    /\ StartTraversal

SpecTransform == InitTransform /\ [][NextTransform]_vars
SpecUsers == InitUsers /\ [][NextTransform]_vars

(***************************************************************************)
(* Properties of fetch().                                                  *)
(***************************************************************************)
\* The documents of the batch files this run wrote, in batch-number order.
WrittenDocs == Flatten([n \in 1 .. (batch_num - 1) |-> dated_dir[n].items])
\* The documents of the handles returned, in order.
ReturnedDocs == Flatten([k \in 1 .. Len(files) |-> files[k].content.items])

\* C1: when fetch() returns, the documents of all written batches, taken in
\* batch-number order, are exactly the documents the successful detail
\* fetches returned, in catalog order: none lost, none twice.
C1_BatchesHoldEveryFetchedDocument ==
    pc = "done" => /\ WrittenDocs = fetched
                   /\ ReturnedDocs = fetched

\* C2: every batch written or returned holds between 1 and batch_size
\* documents, and every batch but the last exactly batch_size; the handles
\* returned are the files written.
C2_BatchSizes ==
    /\ Len(files) = batch_num - 1
    /\ \A k \in 1 .. Len(files) :
         /\ files[k].file_name = k
         /\ dated_dir[k] = files[k].content
         /\ Len(files[k].content.items) >= 1
         /\ Len(files[k].content.items) <= batch_size
         /\ (k < Len(files) => Len(files[k].content.items) = batch_size)
\* A run of 21 identifiers whose first 20 fetches succeed and whose last one
\* fails: one full batch, and nothing written for the empty buffer at the end.
C2_Witness ==
    /\ pc = "done"
    /\ Len(packages) = batch_size + 1
    /\ Len(fetched) = batch_size
    /\ fetched[batch_size].id = batch_size
    /\ Len(files) = 1
\* A run that ends with a short last batch after a full one.
C2_WitnessShortLast ==
    /\ pc = "done"
    /\ Len(files) = 2
    /\ Len(files[2].content.items) < batch_size

\* C3: when fetch() has returned, `latest` resolves to the run's dated
\* directory.
C3_LatestRepointedOnReturn ==
    pc = "done" => ResolvesToToday

\* C4: while the run is writing its batches, `latest` does not resolve to the
\* run's dated directory.
C4_LatestNeverPartial ==
    pc = "loop" => ~ResolvesToToday
\* A re-run on the date `latest` pointed to, with one batch written and more
\* identifiers to come.
C4_Witness ==
    /\ pc = "loop"
    /\ latest_before = [kind |-> "symlink", target |-> "today"]
    /\ dated_dir[2] # NoFile
    /\ batch_num = 2
    /\ i < Len(packages)

\* C5: a failed detail fetch never raises out of fetch(): every identifier
\* is attempted exactly once, in catalog order, and the run returns.
C5_FailureContained ==
    /\ pc # "raised"
    /\ pc \in {"loop", "done"} => attempts = SubSeq(packages, 1, i)
    /\ pc = "done" => attempts = packages
\* A run that returned although a fetch failed before the last identifier,
\* whose document is in the last batch.
C5_Witness ==
    /\ pc = "done"
    /\ Len(fetched) < Len(packages)
    /\ files # <<>>
    /\ LET last == files[Len(files)].content.items
       IN last[Len(last)].id = Len(packages)

\* C9: a batch file, once written, keeps its content, and when a run returns
\* the dated directory holds the batches of one collection only.
OneCollection ==
    \A m, n \in BatchSlots :
       (dated_dir[m] # NoFile /\ dated_dir[n] # NoFile)
          => dated_dir[m].items[1].run = dated_dir[n].items[1].run
C9_BatchFilesImmutable ==
    [][/\ \A n \in BatchSlots :
             dated_dir[n] # NoFile => dated_dir'[n] = dated_dir[n]
       /\ (pc' = "done" => OneCollection')]_vars

\* C10: when the directory preparation is over and the loop begins, no
\* `latest` entry remains under the output root, whatever was there before.
C10_NoStaleLatest ==
    (pc = "loop" /\ i = 0) => latest = NoLatest

(***************************************************************************)
(* Properties of the transformer.                                          *)
(***************************************************************************)
\* The records of the batches whose content is a JSON array, in batch order.
RecordsOfValidBatches(d) ==
    Flatten([k \in 1 .. Len(d) |->
               IF d[k].content.enc = "json_array" THEN d[k].content.items ELSE <<>>])

\* C6: a traversal of _read_batch_files ends normally, having yielded exactly
\* the records of the batches that decode, in batch order and in-batch
\* order; a batch that is not valid JSON contributes nothing and stops
\* nothing.
C6_ReaderSkipsInvalidBatches ==
    (method = "read" /\ tstatus \in {"done", "raised"})
        => /\ tstatus = "done"
           /\ yielded = RecordsOfValidBatches(data)

\* C7: no exception caused by the shape of a raw record leaves any of the
\* five projections, and a projection that ends has been given every record
\* of the stream.
C7_ProjectionsNeverRaise ==
    method \in Projections
        => /\ texc \in {"none", "UnicodeDecodeError"}
           /\ (tstatus = "done" => yielded = RecordsOfValidBatches(data))

\* The name fields of the records read so far, in stream order: of each
\* record the author's, then the maintainer's.
NameFields(recs) ==
    Flatten([k \in 1 .. Len(recs) |->
               << <<recs[k].author, recs[k].author_email>>,
                  <<recs[k].maintainer, recs[k].maintainer_email>> >>])
TrimmedName(c) == IF c[1].t = "str" THEN Strip(c[1].s) ELSE <<>>
HasName(name, cands) == \E k \in 1 .. Len(cands) : TrimmedName(cands[k]) = name
FirstOccurrence(name, cands) ==
    cands[CHOOSE k \in 1 .. Len(cands) :
            /\ TrimmedName(cands[k]) = name
            /\ \A j \in 1 .. (k - 1) : TrimmedName(cands[j]) # name]
EmailPresent(c) == c[2].t = "str" /\ c[2].s # <<>>
UniqueUsernames ==
    \A j, k \in 1 .. Len(out) : j # k => out[j].username # out[k].username

\* C8 (as stated): no two user records of one traversal of users() share a
\* username, and each carries as import identity the email of the first
\* occurrence of its name in the stream if that email is present, else the
\* name.
C8_FirstEmailVerbatim ==
    method = "users"
        => /\ UniqueUsernames
           /\ \A k \in 1 .. Len(out) :
                /\ HasName(out[k].username, NameFields(yielded))
                /\ LET c == FirstOccurrence(out[k].username, NameFields(yielded))
                   IN out[k].import_id =
                        IF EmailPresent(c) THEN c[2].s ELSE out[k].username

\* C8 (amended): no two user records of one traversal of users() share a
\* username, and each carries as import identity the email of the first
\* occurrence of its name in the stream with its surrounding whitespace
\* stripped if that email is present, else the name.
C8_FirstEmailStripped ==
    method = "users"
        => /\ UniqueUsernames
           /\ \A k \in 1 .. Len(out) :
                /\ out[k].username # <<>>
                /\ HasName(out[k].username, NameFields(yielded))
                /\ LET c == FirstOccurrence(out[k].username, NameFields(yielded))
                   IN out[k].import_id =
                        IF EmailPresent(c) THEN Strip(c[2].s) ELSE out[k].username
\* Two records whose authors are the same name once trimmed, with different
\* emails: one user, with the first record's email.
C8_Witness ==
    /\ method = "users"
    /\ tstatus = "done"
    /\ Len(yielded) = 2
    /\ yielded[1].author = Str(<<"a", " ">>)
    /\ yielded[1].author_email = Str(<<" ", "y">>)
    /\ yielded[2].author = Str(<<"a">>)
    /\ yielded[2].author_email = Str(<<"x">>)
    /\ yielded[2].maintainer = Str(<<"a">>)
    /\ out = <<User(1, <<"a">>, <<"y">>)>>

====
